---- MODULE Spec2Model ----
(***************************************************************************)
(* RangeExpr and its variants (RangeFromExpr, RangeToExpr, RangeFullExpr,  *)
(* RangeInclusiveExpr, RangeToInclusiveExpr).                              *)
(*                                                                         *)
(* The repository holds three builds of the module:                        *)
(*   "index"    src/src/index.ts      (isSafeInteger guard in contains)    *)
(*   "part_002" src/unnamed/part_002  (NaN check, fromString, isExhaustive)*)
(*   "part_001" src/unnamed/part_001  (earliest: no rounding, stub         *)
(*                                     contains, iterable variants)        *)
(* The variable `version` fixes the build a behaviour runs.                *)
(*                                                                         *)
(* A JavaScript number is a record [k, v]: k is "fin", "inf", "ninf" or    *)
(* "nan"; for a finite number v is TWICE its value, so that x.5 inputs     *)
(* (v odd) exist and Math.round is not the identity.                       *)
(* A JavaScript string is a sequence of one-character strings.             *)
(***************************************************************************)
EXTENDS Integers, Sequences, FiniteSets

\* ---------------------------------------------------------------- bounds
\* finite inputs range over -Below .. MaxNum, in steps of one half
Below == 1
MaxNum == 3
\* length of the array that getBounds() windows are applied to
ArrLen == 4
\* longest literal handed to fromString, among the other calls and alone
ShortLen == 3
MaxLen == 5

\* a generator is resumed at most this many times with a value to yield;
\* the longest finite range of the model, [-Below, MaxNum + 1.5), fits
MaxYield == MaxNum + Below + 2

\* ---------------------------------------------------------------- numbers
Fin(h) == [k |-> "fin", v |-> h]
Whole(n) == Fin(2 * n)
Infinity == [k |-> "inf", v |-> 0]
NegInfinity == [k |-> "ninf", v |-> 0]
NaN == [k |-> "nan", v |-> 0]

Nums == {Fin(h) : h \in (0 - 2 * Below) .. (2 * MaxNum)} \cup {Infinity, NegInfinity, NaN}
Items == {Whole(n) : n \in (0 - Below - 1) .. (MaxNum + 2)} \cup {Fin(1), Infinity, NaN}

isNaN(x) == x.k = "nan"
isFinite(x) == x.k = "fin"
isInteger(x) == x.k = "fin" /\ x.v % 2 = 0
\* every integer of the model is far inside +-(2^53 - 1)
isSafeInteger(x) == isInteger(x)

\* Math.round: floor(x + 0.5); infinities and NaN pass through
MathRound(x) == IF x.k = "fin" THEN Fin(2 * ((x.v + 1) \div 2)) ELSE x

\* x + 1 and x - 1
Add1(x) == IF x.k = "fin" THEN Fin(x.v + 2) ELSE x
Sub1(x) == IF x.k = "fin" THEN Fin(x.v - 2) ELSE x

\* a < b and a <= b on numbers (false as soon as one side is NaN)
Lt(a, b) ==
    CASE a.k = "nan" \/ b.k = "nan" -> FALSE
      [] a.k = "inf" -> FALSE
      [] b.k = "ninf" -> FALSE
      [] a.k = "ninf" -> TRUE
      [] b.k = "inf" -> TRUE
      [] OTHER -> a.v < b.v
Le(a, b) == ~isNaN(a) /\ ~isNaN(b) /\ (Lt(a, b) \/ a = b)

\* ---------------------------------------------------------------- objects
Versions == {"index", "part_002", "part_001"}
Unbounded == {"RangeFromExpr", "RangeToExpr", "RangeToInclusiveExpr", "RangeFullExpr"}
Classes == {"RangeExpr", "RangeInclusiveExpr"} \cup Unbounded

NoObj == [cls |-> "none", start |-> NaN, end |-> NaN, inclusive |-> FALSE]

\* the constructor's throw: only part_002 checks for NaN
ctorThrows(ver, start, end) == ver = "part_002" /\ (isNaN(start) \/ isNaN(end))

\* the fields the constructor stores
ctorStart(ver, start) == IF ver = "part_001" THEN start ELSE MathRound(start)
ctorEndNoIncrement(ver, end, inclusive) ==
    IF ver = "part_001" THEN end ELSE MathRound(end)
ctorEnd(ver, end, inclusive) ==
    LET _end == IF ver = "part_001" THEN end ELSE MathRound(end)
    IN  IF inclusive THEN Add1(_end) ELSE _end

RangeExpr(ver, cls, start, end, inclusive) ==
    [cls |-> cls, start |-> ctorStart(ver, start),
     end |-> ctorEnd(ver, end, inclusive), inclusive |-> inclusive]

\* clone(): always the base class, inclusive defaulted to false
clone(ver, o) == RangeExpr(ver, "RangeExpr", o.start, o.end, FALSE)

getBoundsDisplayed(o) == <<o.start, IF o.inclusive THEN Sub1(o.end) ELSE o.end>>
getBounds(o) == <<o.start, o.end>>

\* contains(item): the guard differs per build, part_001 is a stub
containsWarns(ver, item) ==
    CASE ver = "index" -> ~isSafeInteger(item)
      [] ver = "part_002" -> isNaN(item)
      [] OTHER -> FALSE
contains(ver, o, item) ==
    CASE ver = "part_001" -> FALSE
      [] containsWarns(ver, item) -> FALSE
      [] o.inclusive -> Le(o.start, item) /\ Le(item, o.end)
      [] OTHER -> Le(o.start, item) /\ Lt(item, o.end)

isEmptyLe(o) == ~Le(o.start, o.end)
isEmpty(o) == ~Lt(o.start, o.end)

startIsExhaustive(o) == isFinite(o.start)
endIsExhaustive(o) == isFinite(o.end)
isExhaustive(o) == endIsExhaustive(o) /\ startIsExhaustive(o)

\* the test of the generator's loop: i < end
loopTestLe(i, end) == Le(i, end)
loopTest(i, end) == Lt(i, end)

\* the unbounded variants of index.ts and part_002 carry an own property
\* [Symbol.iterator] = null; part_001 leaves the inherited generator in place
iterable(ver, o) == ver = "part_001" \/ o.cls \notin Unbounded

\* ---------------------------------------------------------------- strings
Digits == <<"0", "1", "2", "3", "4", "5", "6", "7", "8", "9">>
isDigit(c) == \E d \in 1..10 : Digits[d] = c
DigitVal(c) == (CHOOSE d \in 1..10 : Digits[d] = c) - 1

RECURSIVE Decimal(_)
Decimal(n) == IF n < 10 THEN <<Digits[n + 1]>>
              ELSE Decimal(n \div 10) \o <<Digits[(n % 10) + 1]>>

\* `${x}` for a finite number x (v is twice the value)
NumberToString(x) ==
    LET a == IF x.v < 0 THEN 0 - x.v ELSE x.v
    IN  (IF x.v < 0 THEN <<"-">> ELSE <<>>)
          \o Decimal(a \div 2)
          \o (IF a % 2 = 1 THEN <<".", "5">> ELSE <<>>)

\* Number(str) for a string of decimal digits
RECURSIVE NumberOf(_)
NumberOf(str) == IF str = <<>> THEN 0
                 ELSE 10 * NumberOf(SubSeq(str, 1, Len(str) - 1)) + DigitVal(str[Len(str)])

toStringStoredEnd(ver, o) ==
    (IF isFinite(o.start) THEN NumberToString(o.start) ELSE <<>>)
      \o <<".", ".">>
      \o (IF o.inclusive /\ ver # "part_001" THEN <<"=">> ELSE <<>>)
      \o (IF isFinite(o.end) THEN NumberToString(o.end) ELSE <<>>)
toString(ver, o) ==
    IF ver = "part_001"
    THEN (IF isFinite(o.start) THEN NumberToString(o.start) ELSE <<>>)
           \o <<".", ".">>
           \o (IF isFinite(o.end) THEN NumberToString(o.end) ELSE <<>>)
    ELSE LET start == IF startIsExhaustive(o) THEN NumberToString(o.start) ELSE <<>>
             end == IF endIsExhaustive(o)
                    THEN (IF o.inclusive THEN NumberToString(Sub1(o.end))
                                         ELSE NumberToString(o.end))
                    ELSE <<>>
             inclusive == IF o.inclusive THEN <<"=">> ELSE <<>>
         IN  start \o <<".", ".">> \o inclusive \o end

\* ---- fromString: the match of /(\d+)?\.\.(=?)(\d+)?/ ----
\* length of the longest run of digits of s that starts at position p
RECURSIVE DigitRun(_, _)
DigitRun(s, p) == IF p <= Len(s) /\ isDigit(s[p]) THEN 1 + DigitRun(s, p + 1) ELSE 0

\* the pattern matches at p: (\d+)? is greedy, and can give back no digit
\* without hitting a digit where "." is required
MatchAt(s, p) ==
    LET d == DigitRun(s, p)
    IN  p + d + 1 <= Len(s) /\ s[p + d] = "." /\ s[p + d + 1] = "."

Matches(s) == \E p \in 1..Len(s) : MatchAt(s, p)

\* the groups of the leftmost match: <<rawStart, rawInclusive, rawEnd>>
Groups(s) ==
    LET p == CHOOSE q \in 1..Len(s) : MatchAt(s, q) /\ \A q2 \in 1..(q - 1) : ~MatchAt(s, q2)
        d == DigitRun(s, p)
        e == p + d + 2
        eq == e <= Len(s) /\ s[e] = "="
        f == IF eq THEN e + 1 ELSE e
    IN  <<SubSeq(s, p, p + d - 1),
          IF eq THEN <<"=">> ELSE <<>>,
          SubSeq(s, f, f + DigitRun(s, f) - 1)>>

isEmptyString(str) == str = <<>>

fromStringStart(s) ==
    LET rawStart == Groups(s)[1]
    IN  IF isEmptyString(rawStart) THEN NegInfinity ELSE Whole(NumberOf(rawStart))
fromStringEnd(s) ==
    LET rawEnd == Groups(s)[3]
    IN  IF isEmptyString(rawEnd) THEN Infinity ELSE Whole(NumberOf(rawEnd))
fromStringNeverInclusive(s) == FALSE
fromStringInclusive(s) == Groups(s)[2] = <<"=">>

fromString(ver, s) ==
    RangeExpr(ver, "RangeExpr", fromStringStart(s), fromStringEnd(s), fromStringInclusive(s))

\* ---- Array.prototype.slice(start, end) on [0, 1, ..., ArrLen - 1] ----
array == [n \in 1..ArrLen |-> n - 1]

\* ToIntegerOrInfinity clamped into 0..len, relative to the end when negative
SliceIndex(x, len) ==
    CASE x.k = "nan" -> 0
      [] x.k = "ninf" -> 0
      [] x.k = "inf" -> len
      [] OTHER ->
           LET t == IF x.v >= 0 THEN x.v \div 2 ELSE 0 - ((0 - x.v) \div 2)
           IN  IF t < 0 THEN (IF len + t < 0 THEN 0 ELSE len + t)
               ELSE (IF t > len THEN len ELSE t)

slice(arr, bounds) ==
    LET k == SliceIndex(bounds[1], Len(arr))
        final == SliceIndex(bounds[2], Len(arr))
    IN  IF k < final THEN SubSeq(arr, k + 1, final) ELSE <<>>

\* ---------------------------------------------------------------- state
Chars == {"0", "1", "9", ".", "="}
RECURSIVE StringsUpTo(_)
StringsUpTo(n) == IF n = 0 THEN {<<>>}
                  ELSE LET S == StringsUpTo(n - 1)
                       IN  S \cup {Append(s, c) : s \in S, c \in Chars}

NoCall == [cls |-> "none", start |-> NaN, end |-> NaN, inclusive |-> FALSE, text |-> <<>>]
NoIter == [on |-> "none", i |-> NaN, end |-> NaN, out |-> <<>>, done |-> FALSE]
NoRet == [op |-> "none", self |-> "r", arg |-> NaN, bool |-> FALSE,
          pair |-> <<NaN, NaN>>, str |-> <<>>, warn |-> FALSE]

VARIABLES
    version,  \* the build under execution
    obj,      \* obj["r"]: the constructed range; obj["c"]: the last clone made
    given,    \* the arguments of the constructing call
    it,       \* the generator of the running for-of loop
    ret,      \* the last call and what it returned
    err       \* what the last call threw, "none" if nothing

vars == <<version, obj, given, it, ret, err>>

Init ==
    /\ version \in Versions
    /\ obj = [o \in {"r", "c"} |-> NoObj]
    /\ given = NoCall
    /\ it = NoIter
    /\ ret = NoRet
    /\ err = "none"

\* new cls(...): every variant forwards to the base constructor
\* nothing has been constructed yet
Fresh == obj["r"] = NoObj /\ given = NoCall

New(cls, start, end, inclusive) ==
    /\ given' = [cls |-> cls, start |-> start, end |-> end,
                 inclusive |-> inclusive, text |-> <<>>]
    /\ IF ctorThrows(version, start, end)
       THEN obj' = obj /\ err' = "RangeError"
       ELSE /\ obj' = [obj EXCEPT !["r"] = RangeExpr(version, cls, start, end, inclusive)]
            /\ err' = "none"
    /\ UNCHANGED <<version, it, ret>>

NewRangeExpr ==
    Fresh /\ \E s \in Nums, e \in Nums, i \in BOOLEAN : New("RangeExpr", s, e, i)
NewRangeFromExpr ==
    Fresh /\ \E s \in Nums : New("RangeFromExpr", s, Infinity, FALSE)
NewRangeToExpr ==
    Fresh /\ \E e \in Nums : New("RangeToExpr", NegInfinity, e, FALSE)
NewRangeInclusiveExpr ==
    Fresh /\ \E s \in Nums, e \in Nums : New("RangeInclusiveExpr", s, e, TRUE)
NewRangeToInclusiveExpr ==
    Fresh /\ \E e \in Nums : New("RangeToInclusiveExpr", NegInfinity, e, TRUE)
NewRangeFullExpr ==
    Fresh /\ New("RangeFullExpr", NegInfinity, Infinity, FALSE)

\* RangeExpr.fromString(text), a static method of part_002 alone; a text
\* without a match makes .match() return null, and null.map throws
FromStringIn(S) ==
    /\ version = "part_002"
    /\ Fresh
    /\ \E s \in S :
        /\ given' = [NoCall EXCEPT !.cls = "fromString", !.text = s]
        /\ IF ~Matches(s)
           THEN obj' = obj /\ err' = "TypeError"
           ELSE IF ctorThrows(version, fromStringStart(s), fromStringEnd(s))
           THEN obj' = obj /\ err' = "RangeError"
           ELSE obj' = [obj EXCEPT !["r"] = fromString(version, s)] /\ err' = "none"
        /\ UNCHANGED <<version, it, ret>>

FromString == FromStringIn(StringsUpTo(ShortLen))

\* a call on an existing object, made outside the body of a running loop
Call(o) == obj[o] # NoObj /\ it.on = "none"

GetBounds ==
    \E o \in {"r", "c"} :
        /\ Call(o)
        /\ ret' = [NoRet EXCEPT !.op = "getBounds", !.self = o, !.pair = getBounds(obj[o])]
        /\ err' = "none"
        /\ UNCHANGED <<version, obj, given, it>>

Contains ==
    \E o \in {"r", "c"}, item \in Items :
        /\ Call(o)
        /\ ret' = [NoRet EXCEPT !.op = "contains", !.self = o, !.arg = item,
                                !.bool = contains(version, obj[o], item),
                                !.warn = containsWarns(version, item)]
        /\ err' = "none"
        /\ UNCHANGED <<version, obj, given, it>>

IsEmpty ==
    \E o \in {"r", "c"} :
        /\ Call(o)
        /\ ret' = [NoRet EXCEPT !.op = "isEmpty", !.self = o, !.bool = isEmpty(obj[o])]
        /\ err' = "none"
        /\ UNCHANGED <<version, obj, given, it>>

IsExhaustive ==
    \E o \in {"r", "c"} :
        /\ version = "part_002"
        /\ Call(o)
        /\ ret' = [NoRet EXCEPT !.op = "isExhaustive", !.self = o,
                                !.bool = isExhaustive(obj[o])]
        /\ err' = "none"
        /\ UNCHANGED <<version, obj, given, it>>

ToString ==
    \E o \in {"r", "c"} :
        /\ Call(o)
        /\ ret' = [NoRet EXCEPT !.op = "toString", !.self = o,
                                !.str = toString(version, obj[o])]
        /\ err' = "none"
        /\ UNCHANGED <<version, obj, given, it>>

Clone ==
    \E o \in {"r", "c"} :
        /\ Call(o)
        /\ IF ctorThrows(version, obj[o].start, obj[o].end)
           THEN obj' = obj /\ err' = "RangeError"
           ELSE obj' = [obj EXCEPT !["c"] = clone(version, obj[o])] /\ err' = "none"
        /\ ret' = [NoRet EXCEPT !.op = "clone", !.self = o]
        /\ UNCHANGED <<version, given, it>>

\* for (const i of o): o[Symbol.iterator]() ...
IterStart ==
    \E o \in {"r", "c"} :
        /\ Call(o)
        /\ iterable(version, obj[o])
        /\ it' = [NoIter EXCEPT !.on = o, !.i = obj[o].start, !.end = obj[o].end]
        /\ ret' = [NoRet EXCEPT !.op = "iterator", !.self = o]
        /\ err' = "none"
        /\ UNCHANGED <<version, obj, given>>

\* ... which throws "is not iterable" when the property is null
IterRefused ==
    \E o \in {"r", "c"} :
        /\ Call(o)
        /\ ~iterable(version, obj[o])
        /\ ret' = [NoRet EXCEPT !.op = "iterator", !.self = o]
        /\ err' = "TypeError"
        /\ UNCHANGED <<version, obj, given, it>>

\* next(): the loop test i < end holds, the generator yields i, then i++
IterYield ==
    /\ it.on # "none"
    /\ ~it.done
    /\ loopTest(it.i, it.end)
    /\ Len(it.out) < MaxYield
    /\ it' = [it EXCEPT !.out = Append(it.out, it.i), !.i = Add1(it.i)]
    /\ UNCHANGED <<version, obj, given, ret, err>>

\* next(): the loop test fails, the generator returns
IterDone ==
    /\ it.on # "none"
    /\ ~it.done
    /\ ~loopTest(it.i, it.end)
    /\ it' = [it EXCEPT !.done = TRUE]
    /\ UNCHANGED <<version, obj, given, ret, err>>

\* the loop is left, after the last value or by a break
IterLeave ==
    /\ it.on # "none"
    /\ it' = NoIter
    /\ UNCHANGED <<version, obj, given, ret, err>>

Next ==
    \/ NewRangeExpr
    \/ NewRangeFromExpr
    \/ NewRangeToExpr
    \/ NewRangeInclusiveExpr
    \/ NewRangeToInclusiveExpr
    \/ NewRangeFullExpr
    \/ FromString
    \/ GetBounds
    \/ Contains
    \/ IsEmpty
    \/ IsExhaustive
    \/ ToString
    \/ Clone
    \/ IterStart
    \/ IterRefused
    \/ IterYield
    \/ IterDone
    \/ IterLeave

Spec == Init /\ [][Next]_vars
\* fromString and toString alone, over every text of up to MaxLen characters
InitParse ==
    /\ version = "part_002"
    /\ obj = [o \in {"r", "c"} |-> NoObj]
    /\ given = NoCall
    /\ it = NoIter
    /\ ret = NoRet
    /\ err = "none"

FromStringLong == FromStringIn(StringsUpTo(MaxLen))

NextParse ==
    \/ FromStringLong
    \/ ToString

SpecParse == InitParse /\ [][NextParse]_vars

\* ================================================================ claims
ByCtor == given.cls \in Classes
Integral(x) == isInteger(x) \/ x.k \in {"inf", "ninf"}
IntegralCall == ByCtor /\ Integral(given.start) /\ Integral(given.end)
Fuller == version \in {"index", "part_002"}
OnR(op) == ret.op = op /\ ret.self = "r"
IsPrefix(s, t) == Len(s) <= Len(t) /\ s = SubSeq(t, 1, Len(s))
\* the integers lo, lo + 1, ..., hi as numbers
Run(lo, hi) == IF hi < lo THEN <<>> ELSE [n \in 1..(hi - lo + 1) |-> Whole(lo + n - 1)]
ValueOf(x) == x.v \div 2

\* C1: for a safe-integer item, contains(item) is start <= item < end on a
\* range built with inclusive = false and start <= item <= (the end the
\* caller passed) on one built with inclusive = true; no item above the
\* passed end is contained.  (Builds with an implemented contains.)
C1_ContainsUsesOriginalEnd ==
    (OnR("contains") /\ Fuller /\ IntegralCall /\ isSafeInteger(ret.arg)) =>
        ret.bool = (/\ Le(given.start, ret.arg)
                    /\ IF given.inclusive THEN Le(ret.arg, given.end)
                                          ELSE Lt(ret.arg, given.end))

\* C2: a constructor call with NaN as start or end throws and leaves no
\* object; no Range object has a NaN bound.  (Builds index.ts and part_002.)
C2_NaNBoundRejected ==
    Fuller =>
        /\ (ByCtor /\ (isNaN(given.start) \/ isNaN(given.end)))
              => (obj["r"] = NoObj /\ err = "RangeError")
        /\ \A o \in {"r", "c"} :
              obj[o] # NoObj => ~isNaN(obj[o].start) /\ ~isNaN(obj[o].end)

\* C3: isEmpty() of Range(a, b) is a >= b, of an inclusive Range(a, b) is
\* a > b, for integers a, b; RangeFull is not empty; RangeFrom(Infinity),
\* RangeTo(-Infinity), RangeToInclusive(-Infinity) are empty; RangeFrom(n),
\* RangeTo(n), RangeToInclusive(n) with finite n are not.
C3_IsEmpty ==
    (OnR("isEmpty") /\ ByCtor) =>
        LET a == given.start
            b == given.end
        IN  /\ (given.cls \in {"RangeExpr", "RangeInclusiveExpr"} /\ isInteger(a) /\ isInteger(b))
                  => ret.bool = (IF given.inclusive THEN a.v > b.v ELSE a.v >= b.v)
            /\ given.cls = "RangeFullExpr" => ret.bool = FALSE
            /\ (given.cls = "RangeFromExpr" /\ a = Infinity) => ret.bool = TRUE
            /\ (given.cls = "RangeFromExpr" /\ isFinite(a)) => ret.bool = FALSE
            /\ (given.cls \in {"RangeToExpr", "RangeToInclusiveExpr"} /\ b = NegInfinity)
                  => ret.bool = TRUE
            /\ (given.cls \in {"RangeToExpr", "RangeToInclusiveExpr"} /\ isFinite(b))
                  => ret.bool = FALSE

C3_Witness ==
    /\ OnR("isEmpty")
    /\ given.cls = "RangeExpr" /\ given.inclusive
    /\ given.start = Whole(2) /\ given.end = Whole(2)
    /\ ret.bool = FALSE

\* C4: for integers a < b a loop over Range(a, b) sees a, a + 1, ..., b - 1
\* and a loop over the inclusive Range(a, b) sees a, ..., b, each once, in
\* increasing order, and then ends; a loop over an empty range sees nothing.
C4_IterationYields ==
    /\ (/\ it.on = "r"
        /\ given.cls \in {"RangeExpr", "RangeInclusiveExpr"}
        /\ isInteger(given.start) /\ isInteger(given.end)
        /\ given.start.v < given.end.v) =>
           LET a == ValueOf(given.start)
               b == ValueOf(given.end)
               want == Run(a, IF given.inclusive THEN b ELSE b - 1)
           IN  /\ IsPrefix(it.out, want)
               /\ it.done => it.out = want
               /\ (it.out = want /\ ~it.done) => ~ENABLED IterYield
    /\ (it.on # "none" /\ ~Lt(obj[it.on].start, obj[it.on].end)) =>
           /\ it.out = <<>>
           /\ ~it.done => ~ENABLED IterYield

C4_Witness ==
    /\ it.on = "r" /\ it.done
    /\ given.cls = "RangeInclusiveExpr"
    /\ given.start = Whole(1) /\ given.end = Whole(3)
    /\ it.out = <<Whole(1), Whole(2), Whole(3)>>

\* C5: a RangeFrom, RangeTo, RangeFull or RangeToInclusive object is never
\* iterated: the attempt throws; a RangeInclusive object accepts it.
C5_UnboundedNotIterable ==
    /\ (it.on = "r" /\ ByCtor) => given.cls \notin Unbounded
    /\ (OnR("iterator") /\ given.cls \in Unbounded) => err = "TypeError"
    /\ (OnR("iterator") /\ given.cls = "RangeInclusiveExpr") => err = "none"

InArray(lo, hi) == SelectSeq(array, LAMBDA x : lo <= x /\ x <= hi)
C8_BoundsStableAndSlice ==
    (obj["r"] # NoObj /\ IntegralCall) =>
        LET a == given.start
            b == given.end
            pair == <<a, IF given.inclusive THEN Add1(b) ELSE b>>
            last == ArrLen - 1
            top == IF given.inclusive THEN ValueOf(b) ELSE ValueOf(b) - 1
        IN  /\ getBounds(obj["r"]) = pair
            /\ OnR("getBounds") =>
                 /\ ret.pair = pair
                 /\ (given.cls \in {"RangeExpr", "RangeInclusiveExpr"}
                       /\ isInteger(a) /\ isInteger(b) /\ a.v >= 0 /\ b.v >= 0)
                      => slice(array, ret.pair) = InArray(ValueOf(a), top)
                 /\ (given.cls = "RangeFromExpr" /\ isInteger(a) /\ a.v >= 0)
                      => slice(array, ret.pair) = InArray(ValueOf(a), last)
                 /\ (given.cls \in {"RangeToExpr", "RangeToInclusiveExpr"}
                       /\ isInteger(b) /\ b.v >= 0)
                      => slice(array, ret.pair) = InArray(0, top)
                 /\ given.cls = "RangeFullExpr" => slice(array, ret.pair) = array

C8_Witness ==
    /\ OnR("getBounds")
    /\ obj["c"] # NoObj
    /\ given.cls = "RangeExpr" /\ given.inclusive
    /\ given.start = Whole(1) /\ given.end = Whole(2)
    /\ ret.pair = <<Whole(1), Whole(3)>>
    /\ slice(array, ret.pair) = <<1, 2>>

\* C9: for a literal s of the forms start..end, start..=end, start..,
\* ..end, ..=end and .., fromString(s).toString() is s with the leading
\* zeros of start and end dropped: same start or none, same end or none,
\* same "=".
AllDigits(s) == \A n \in 1..Len(s) : isDigit(s[n])
RECURSIVE Canonical(_)
Canonical(ds) == IF Len(ds) > 1 /\ ds[1] = "0" THEN Canonical(Tail(ds)) ELSE ds
\* s is ds1 ".." ds2 or ds1 "..=" ds2 with ds1 ending at n; "=" needs an end
LiteralAt(s, n) ==
    /\ n + 2 <= Len(s)
    /\ AllDigits(SubSeq(s, 1, n))
    /\ s[n + 1] = "." /\ s[n + 2] = "."
    /\ LET rest == SubSeq(s, n + 3, Len(s))
       IN  \/ AllDigits(rest)
           \/ (Len(rest) > 1 /\ rest[1] = "=" /\ AllDigits(Tail(rest)))
IsLiteral(s) == \E n \in 0..Len(s) : LiteralAt(s, n)
CanonicalLiteral(s) ==
    LET n == CHOOSE m \in 0..Len(s) : LiteralAt(s, m)
        rest == SubSeq(s, n + 3, Len(s))
        eq == rest # <<>> /\ rest[1] = "="
    IN  Canonical(SubSeq(s, 1, n)) \o <<".", ".">>
          \o (IF eq THEN <<"=">> \o Canonical(Tail(rest)) ELSE Canonical(rest))
C10_IterationTerminates ==
    (Fuller /\ it.on # "none" /\ ~it.done /\ loopTest(it.i, it.end)) =>
        isFinite(it.i) /\ isFinite(it.end)
====
